---- MODULE Spec2Model ----
(***************************************************************************)
(* Client-side conversation synchronisation of the chat application:       *)
(* the axios gateway (frontend/src/httpClient.ts), the Chat component with *)
(* its react-query query 'chatHistory' and its three mutations, the edit   *)
(* session kept in React state, the route guard and the login page.  The   *)
(* backend is an external collaborator; it is modelled from the documented *)
(* REST contract.                                                          *)
(***************************************************************************)
EXTENDS Integers, Sequences, FiniteSets, Bags

(* ------------------------------ bounds -------------------------------- *)

\* longest text in the input field or the edit form when the texts are
\* drawn up front (SpecTyped)
MaxLen == 2
\* largest message identifier the server hands out
MaxId == 4
\* most mutation requests (POST, PUT, DELETE) in flight at once
MaxInFlight == 1
\* longest history the page is opened on where the histories are drawn up
\* front (SpecRender)
MaxLoaded == 2
\* most mutation requests in flight at once where the mutations are fired
\* one on top of the other (SpecConcurrent)
MaxConcurrent == 2

(* ------------------------------- values ------------------------------- *)

Chars == {" ", "a"}
Strings == UNION {[1..n -> Chars] : n \in 0..MaxLen}

\* the texts the user types while requests interleave (Spec): the empty
\* text, a blank one and a non-blank one
Typed == {<<>>, <<" ">>, <<"a">>}

NoToken == "null"
NoEdit == "null"
\* an optional value: Undefined, or Some(x)
Undefined == <<>>
Some(x) == <<x>>
NoBody == Undefined
NoAuth == "none"

LoginPath == "/login"
ChatPath == "/"
\* where Login navigates to after a login
AfterLoginPath == "/chat"

\* the response interceptor is not running
Idle == <<>>

FirstToken == "jwt1"
\* the access tokens the server issues
Tokens == {"jwt1", "jwt2"}
\* the form Login submits: the fields appended to it
FormData == <<"username", "password">>

\* the scripted reply the server stores next to every message sent
BotReply == <<"a", "a", "a">>

Digits == <<"0", "1", "2", "3", "4", "5", "6", "7", "8", "9">>

RECURSIVE toString(_)
\* Number.prototype.toString() of chat.id
toString(n) ==
    IF n < 10 THEN Digits[n + 1]
    ELSE toString(n \div 10) \o Digits[(n % 10) + 1]

IsSpace(c) == c = " "

RECURSIVE TrimStart(_)
TrimStart(s) ==
    IF s # <<>> /\ IsSpace(Head(s)) THEN TrimStart(Tail(s)) ELSE s

RECURSIVE TrimEnd(_)
TrimEnd(s) ==
    IF s # <<>> /\ IsSpace(s[Len(s)]) THEN TrimEnd(SubSeq(s, 1, Len(s) - 1)) ELSE s

\* String.prototype.trim()
Trim(s) == TrimEnd(TrimStart(s))

\* truthiness of a JavaScript string: every string but the empty one
Truthy(s) == s # <<>>

(* ------------------------------- state -------------------------------- *)

VARIABLES
    token,              \* localStorage 'token'
    location,           \* window.location path
    message,            \* useState(''): the input field
    editMessageId,      \* useState<string | null>(null)
    editedContent,      \* useState(''): the draft of the edit form
    chatHistory,        \* data of the query 'chatHistory' (the replica)
    status,             \* status of the query: loading, success, error
    net,                \* bag of requests in flight and responses not yet delivered
    interceptor,        \* the 401 the response interceptor is handling, and how far
    serverHistory,      \* the server's messages, in insertion order
    nextId,             \* the next identifier the server assigns
    lastOp              \* the step taken last

vars == <<token, location, message, editMessageId, editedContent, chatHistory,
          status, net, interceptor, serverHistory, nextId, lastOp>>

\* the step taken last: a handler (with the message identifier it was called
\* with) or the callback of a response (with its method and status)
Op(name) == [op |-> name, arg |-> "", method |-> "", status |-> -1]
Called(name, messageId) == [op |-> name, arg |-> messageId, method |-> "", status |-> -1]
Got(name, resp) == [op |-> name, arg |-> "", method |-> resp.method, status |-> resp.status]

component == <<message, editMessageId, editedContent>>
query == <<chatHistory, status>>
server == <<serverHistory, nextId>>
session == <<token, location>>

(* ------------------------- the request gateway ------------------------ *)

HistoryPath == "/messages/history"
MessagesPath == "/messages"
TokenPath == "/token"
MessagePath(messageId) == "/messages/" \o messageId

\* the credential is attached without the test for a token
AuthorizationUnconditional(tok) == "Bearer " \o tok

\* httpClient.interceptors.request.use: the bearer credential of a request
Authorization(tok) == IF tok # NoToken THEN "Bearer " \o tok ELSE NoAuth

\* a request as it leaves the client
Request(method, url, body) ==
    [method |-> method, url |-> url, body |-> body, auth |-> Authorization(token),
     phase |-> "sent", status |-> 0, data |-> Undefined]

Mutations == {"POST", "PUT", "DELETE"}

InFlight(n, methods) == {r \in BagToSet(n) : r.method \in methods}

RECURSIVE CountOf(_, _)
CountOf(n, rs) ==
    IF rs = {} THEN 0
    ELSE LET r == CHOOSE x \in rs : TRUE
         IN CopiesIn(r, n) + CountOf(n, rs \ {r})

\* the number of mutation requests in flight
PendingMutations == CountOf(net, InFlight(net, Mutations))

\* the number of POSTs of a message the server has not handled yet
PendingPosts ==
    CountOf(net, {r \in InFlight(net, {"POST"}) :
                     r.url = MessagesPath /\ r.phase \in {"sent", "aborted"}})

\* the bounds of the model: one more mutation fits in flight, and the
\* server has identifiers left for one more message and its reply
Room == PendingMutations < MaxInFlight
RoomConcurrent == PendingMutations < MaxConcurrent
IdsLeft == nextId + 2 * PendingPosts + 1 <= MaxId

\* the interceptor tests for another status
IsUnauthorizedWrongStatus(r) == r.status # 0 /\ r.status = 403

\* response interceptor, error branch: error.response && error.response.status === 401
\* (status 0 stands for a failure without a response)
IsUnauthorized(r) == r.status # 0 /\ r.status = 401

\* a response the promise resolves with (axios: validateStatus 2xx)
IsSuccess(r) == r.status >= 200 /\ r.status < 300

(* --------------------------- the query cache -------------------------- *)

\* Query.state.isFetching of 'chatHistory': its fetch runs.  react-query
\* runs a failing query function again before it reports the error; the
\* runs send the same request, and one request stands for them here
IsFetching(n) == \E r \in InFlight(n, {"GET"}) : r.phase # "aborted"

\* Query.fetch: a fetch that is already running is reused, not restarted
Fetch(n) ==
    IF IsFetching(n) THEN n
    ELSE n (+) SetToBag({Request("GET", HistoryPath, NoBody)})

\* reducer 'fetch': without data the query goes back to loading
StatusOnFetch(n) ==
    IF ~IsFetching(n) /\ chatHistory = Undefined THEN "loading" ELSE status

\* queryClient.invalidateQueries('chatHistory'): refetch of the active query
InvalidateQueries(n) == Fetch(n)

\* what Chat returns: 'Loading...', the error text, or the history
View ==
    IF status = "loading" THEN "Loading"
    ELSE IF status = "error" THEN "Error"
    ELSE "History"

Mounted == location = ChatPath

\* the messages ChatBody renders
Rendered ==
    IF chatHistory = Undefined THEN {}
    ELSE {chatHistory[1][i] : i \in DOMAIN chatHistory[1]}

\* ChatMessage: the edit form replaces the content of the message being edited
InEditForm(chat) == editMessageId = toString(chat.id)

\* MessageContent: Edit and Delete are offered on user messages
HasActions(chat) == chat.is_from_user /\ ~InEditForm(chat)

\* Edit and Delete are rendered without the test for the author
ChatMessageActionsOnAll(chat) ==
    IF InEditForm(chat)
    THEN [id |-> chat.id, text |-> editedContent, buttons |-> <<>>, actions |-> {"Save"}]
    ELSE [id |-> chat.id, text |-> chat.content,
          buttons |-> IF ~chat.is_from_user /\ Len(chat.buttons) > 0
                      THEN chat.buttons ELSE <<>>,
          actions |-> {"Edit", "Delete"}]

\* ChatMessage: what is on screen for one message: EditMessageForm (the
\* draft and Save) for the message being edited, MessageContent (the
\* content, the buttons of a bot message, Edit and Delete on a user
\* message) for every other
ChatMessage(chat) ==
    IF InEditForm(chat)
    THEN [id |-> chat.id, text |-> editedContent, buttons |-> <<>>, actions |-> {"Save"}]
    ELSE [id |-> chat.id, text |-> chat.content,
          buttons |-> IF ~chat.is_from_user /\ Len(chat.buttons) > 0
                      THEN chat.buttons ELSE <<>>,
          actions |-> IF chat.is_from_user THEN {"Edit", "Delete"} ELSE {}]

\* ChatBody: chatHistory?.map((chat, index) => <ChatMessage ... />)
ChatBody ==
    IF chatHistory = Undefined THEN <<>>
    ELSE [i \in DOMAIN chatHistory[1] |-> ChatMessage(chatHistory[1][i])]

(* ----------------------------- the backend ---------------------------- *)

\* the request carries a bearer credential; whether the server still
\* accepts it (no refresh: a token expires) is the server's to decide
Authorized(r) == r.auth # NoAuth

\* positions of the message a /messages/{id} request addresses
Target(r) ==
    {i \in DOMAIN serverHistory : MessagePath(toString(serverHistory[i].id)) = r.url}

\* the server finds what the request addresses
Found(r) == r.method \in {"PUT", "DELETE"} => Target(r) # {}

UserMessage(id, content) ==
    [id |-> id, content |-> content, is_from_user |-> TRUE, reply_to |-> 0,
     buttons |-> <<>>]

BotMessage(id, replyTo) ==
    [id |-> id, content |-> BotReply, is_from_user |-> FALSE, reply_to |-> replyTo,
     buttons |-> <<"Option 1", "Option 2">>]

Remove(h, i) == SubSeq(h, 1, i - 1) \o SubSeq(h, i + 1, Len(h))

Response(r, st, d) == [r EXCEPT !.phase = "replied", !.status = st, !.data = d]

\* the answer to a request, on its way to the page that sent the request;
\* a page that is gone gets none
Answered(r, d) ==
    (net (-) SetToBag({r}))
        (+) (IF r.phase = "sent" THEN SetToBag({Response(r, 200, d)}) ELSE EmptyBag)

\* the server handles an authorized request with the documented effect of
\* its endpoint and answers 200; the answer then travels to the client.
\* (The statements of the interceptor run to completion in one task of the
\* page: what happens elsewhere is ordered before or after them.)
serverHandle(r) ==
    /\ interceptor = Idle
    /\ r.phase \in {"sent", "aborted"}
    /\ r.url # TokenPath
    /\ Authorized(r) /\ Found(r)
    /\ lastOp' = Op("serverHandle")
    /\ UNCHANGED <<session, interceptor, component, query>>
    /\ CASE r.method = "GET" ->
              /\ net' = Answered(r, Some(serverHistory))
              /\ UNCHANGED <<serverHistory, nextId>>
         [] r.method = "POST" ->
              /\ net' = Answered(r, Undefined)
              /\ serverHistory' = serverHistory \o
                    <<UserMessage(nextId, r.body[1]), BotMessage(nextId + 1, nextId)>>
              /\ nextId' = nextId + 2
         [] r.method = "PUT" ->
              /\ net' = Answered(r, Undefined)
              /\ serverHistory' =
                    [i \in DOMAIN serverHistory |->
                       IF i \in Target(r)
                       THEN [serverHistory[i] EXCEPT !.content = r.body[1]]
                       ELSE serverHistory[i]]
              /\ UNCHANGED nextId
         [] r.method = "DELETE" ->
              /\ net' = Answered(r, Undefined)
              /\ serverHistory' = Remove(serverHistory, CHOOSE i \in Target(r) : TRUE)
              /\ UNCHANGED nextId

\* the ways a request can fail now, none of which changes the server: no
\* response (0), a server error (500), a rejected credential (401), a
\* message that is not there (404)
Failures(r) ==
    {0, 500, 401} \cup (IF Authorized(r) /\ ~Found(r) THEN {404} ELSE {})

\* what the client can receive for a request: the answer that has come
\* back, or a failure of a request that is still out
Responses(r) ==
    IF r.phase = "replied" THEN {r}
    ELSE IF r.phase = "sent" THEN {Response(r, st, Undefined) : st \in Failures(r)}
    ELSE {}

(* ------------------------- the Chat component ------------------------- *)

\* the handlers are reachable only while Chat renders the history
Interactive == Mounted /\ interceptor = Idle /\ View = "History"

Dispatch(req) == net' = net (+) SetToBag({req})

\* onChange of the input field
setMessage(s) ==
    /\ Interactive
    /\ message' = s
    /\ lastOp' = Op("setMessage")
    /\ UNCHANGED <<session, interceptor, editMessageId, editedContent, query, net, server>>

\* the guard tests the input without trimming it
SendAcceptsUntrimmed(m) == Truthy(m)

\* handleSendMessage: if (message.trim())
SendAccepts(m) == Truthy(Trim(m))

\* the request carries the trimmed input
PostRequestTrimmed(content) == Request("POST", MessagesPath, Some(Trim(content)))

\* sendMessageMutation: httpClient.post('/messages', { content })
PostRequest(content) == Request("POST", MessagesPath, Some(content))

\* the input is left as it was submitted
SubmittedInputKept(m) == m

\* handleSendMessage: setMessage('')
SubmittedInput(m) == <<>>

handleSendMessage ==
    /\ Interactive
    /\ IF SendAccepts(message)
       THEN /\ Dispatch(PostRequest(message))
            /\ message' = SubmittedInput(message)
       ELSE UNCHANGED <<net, message>>
    /\ lastOp' = Op("handleSendMessage")
    /\ UNCHANGED <<session, interceptor, editMessageId, editedContent, query, server>>

\* deleteMessageMutation: httpClient.delete(`/messages/${messageId}`)
DeleteRequest(messageId) == Request("DELETE", MessagePath(messageId), NoBody)

\* the message is also taken out of the replica at once
handleDeleteMessagePatches(chat) ==
    /\ Interactive
    /\ chat \in Rendered /\ HasActions(chat)
    /\ Dispatch(DeleteRequest(toString(chat.id)))
    /\ chatHistory' = Some(SelectSeq(chatHistory[1], LAMBDA c : c.id # chat.id))
    /\ lastOp' = Called("handleDeleteMessage", toString(chat.id))
    /\ UNCHANGED <<session, interceptor, component, status, server>>

\* handleDeleteMessage, from the Delete button of a rendered message
handleDeleteMessage(chat) ==
    /\ Interactive
    /\ chat \in Rendered /\ HasActions(chat)
    /\ Dispatch(DeleteRequest(toString(chat.id)))
    /\ lastOp' = Called("handleDeleteMessage", toString(chat.id))
    /\ UNCHANGED <<session, interceptor, component, query, server>>

\* the saves still in flight are cancelled when another edit begins
handleEditMessageCancelsSave(chat) ==
    /\ Interactive
    /\ chat \in Rendered /\ HasActions(chat)
    /\ editMessageId' = toString(chat.id)
    /\ editedContent' = chat.content
    /\ net' = [r \in {q \in BagToSet(net) : ~(q.method = "PUT" /\ q.phase = "sent")}
                 |-> CopiesIn(r, net)]
    /\ lastOp' = Called("handleEditMessage", toString(chat.id))
    /\ UNCHANGED <<session, interceptor, message, query, server>>

\* the edit form opens with an empty draft
handleEditMessageEmptyDraft(chat) ==
    /\ Interactive
    /\ chat \in Rendered /\ HasActions(chat)
    /\ editMessageId' = toString(chat.id)
    /\ editedContent' = <<>>
    /\ lastOp' = Called("handleEditMessage", toString(chat.id))
    /\ UNCHANGED <<session, interceptor, message, query, net, server>>

\* the draft of the edit that was open is kept
handleEditMessageKeepsDraft(chat) ==
    /\ Interactive
    /\ chat \in Rendered /\ HasActions(chat)
    /\ editMessageId' = toString(chat.id)
    /\ editedContent' = IF editMessageId = NoEdit THEN chat.content ELSE editedContent
    /\ lastOp' = Called("handleEditMessage", toString(chat.id))
    /\ UNCHANGED <<session, interceptor, message, query, net, server>>

\* handleEditMessage, from the Edit button of a rendered message
handleEditMessage(chat) ==
    /\ Interactive
    /\ chat \in Rendered /\ HasActions(chat)
    /\ editMessageId' = toString(chat.id)
    /\ editedContent' = chat.content
    /\ lastOp' = Called("handleEditMessage", toString(chat.id))
    /\ UNCHANGED <<session, interceptor, message, query, net, server>>

\* the messages whose edit form is on screen
Forms == {chat \in Rendered : InEditForm(chat)}

\* onChange of the edit form's input
setEditedContent(s) ==
    /\ Interactive
    /\ Forms # {}
    /\ editedContent' = s
    /\ lastOp' = Op("setEditedContent")
    /\ UNCHANGED <<session, interceptor, message, editMessageId, query, net, server>>

\* the guard tests the draft without trimming it
SaveAcceptsUntrimmed(draft) == Truthy(draft)

\* handleSaveEdit: if (editedContent.trim())
SaveAccepts(draft) == Truthy(Trim(draft))

\* the request goes to the collection, not to the message
PutRequestWithoutId(messageId, content) == Request("PUT", MessagesPath, Some(content))

\* editMessageMutation: httpClient.put(`/messages/${messageId}`, { content })
PutRequest(messageId, content) == Request("PUT", MessagePath(messageId), Some(content))

\* the query is invalidated when the request leaves, not when it succeeds
handleSaveEditRefetchesAtOnce(chat) ==
    /\ Interactive
    /\ chat \in Forms
    /\ IF SaveAccepts(editedContent)
       THEN net' = Fetch(net (+) SetToBag({PutRequest(toString(chat.id), editedContent)}))
       ELSE UNCHANGED net
    /\ lastOp' = Called("handleSaveEdit", toString(chat.id))
    /\ UNCHANGED <<session, interceptor, component, query, server>>

\* handleSaveEdit(chat.id.toString()), from the Save button of the edit form
handleSaveEdit(chat) ==
    /\ Interactive
    /\ chat \in Forms
    /\ IF SaveAccepts(editedContent)
       THEN Dispatch(PutRequest(toString(chat.id), editedContent))
       ELSE UNCHANGED net
    /\ lastOp' = Called("handleSaveEdit", toString(chat.id))
    /\ UNCHANGED <<session, interceptor, component, query, server>>

(* ------------------------ responses at the client --------------------- *)

Requests == BagToSet(net)

\* r is out and the client receives resp for it; the callbacks of a
\* response run one after the other, never in the middle of another one
Arrives(r, resp) == interceptor = Idle /\ r \in Requests /\ resp \in Responses(r)

Rest(r) == net (-) SetToBag({r})

\* a document is unloaded, and the React state and the query cache with
\* it; the document loaded next starts from the initial values
Unload ==
    /\ message' = <<>>
    /\ editMessageId' = NoEdit
    /\ editedContent' = <<>>
    /\ chatHistory' = Undefined
    /\ status' = "loading"

\* what is left in flight of a document that is unloaded: its requests may
\* still reach the server, and no response reaches a callback any more
\* (a request that changes nothing at the server is left out)
Aborted(n) ==
    LET out == {r \in InFlight(n, Mutations) : r.phase # "replied" /\ r.url # TokenPath}
    IN [a \in {[r EXCEPT !.phase = "aborted"] : r \in out} |->
          CountOf(n, {r \in out : [r EXCEPT !.phase = "aborted"] = a})]

\* response interceptor on a 401, first statement:
\* localStorage.removeItem('token')
unauthorized(r, resp) ==
    /\ Arrives(r, resp)
    /\ IsUnauthorized(resp)
    /\ token' = NoToken
    /\ interceptor' = <<"removeItem", resp>>
    /\ net' = Rest(r)
    /\ lastOp' = Op("unauthorized")
    /\ UNCHANGED <<location, component, query, server>>

\* the interceptor removes the token and stays at the page
redirectOmitted ==
    /\ interceptor # Idle /\ interceptor[1] = "removeItem"
    /\ interceptor' = <<"href", interceptor[2]>>
    /\ lastOp' = Op("redirect")
    /\ UNCHANGED <<session, component, query, net, server>>

\* response interceptor on a 401, second statement:
\* window.location.href = '/login'
redirect ==
    /\ interceptor # Idle /\ interceptor[1] = "removeItem"
    /\ location' = LoginPath
    /\ interceptor' = <<"href", interceptor[2]>>
    /\ lastOp' = Op("redirect")
    /\ UNCHANGED <<token, component, query, net, server>>

\* the call is fulfilled after a 401, and its success handler runs
rejectResolves ==
    /\ interceptor # Idle /\ interceptor[1] = "href"
    /\ interceptor' = Idle
    /\ net' = Fetch(net)
    /\ editMessageId' = NoEdit
    /\ lastOp' = Got("reject", interceptor[2])
    /\ UNCHANGED <<session, message, editedContent, query, server>>

\* response interceptor, last statement: return Promise.reject(error).  The
\* call fails and no handler is set for that; the browser then leaves for
\* /login, and the page and every pending callback go with it
reject ==
    /\ interceptor # Idle /\ interceptor[1] = "href"
    /\ interceptor' = Idle
    /\ Unload
    /\ net' = Aborted(net)
    /\ lastOp' = Got("reject", interceptor[2])
    /\ UNCHANGED <<session, server>>

\* a request of a page that is gone never reaches the server
discard(r) ==
    /\ interceptor = Idle
    /\ r \in Requests /\ r.phase = "aborted"
    /\ net' = Rest(r)
    /\ lastOp' = Op("discard")
    /\ UNCHANGED <<session, interceptor, component, query, server>>

\* the query function resolves: res.data replaces the replica
fetchSuccess(r, resp) ==
    /\ Mounted /\ Arrives(r, resp)
    /\ resp.method = "GET" /\ IsSuccess(resp)
    /\ chatHistory' = resp.data
    /\ status' = "success"
    /\ net' = Rest(r)
    /\ lastOp' = Got("fetchSuccess", resp)
    /\ UNCHANGED <<session, interceptor, component, server>>

\* the failure of the fetch is swallowed: the query stays as it was
fetchErrorSwallowed(r, resp) ==
    /\ Mounted /\ Arrives(r, resp)
    /\ resp.method = "GET" /\ ~IsSuccess(resp) /\ ~IsUnauthorized(resp)
    /\ net' = Rest(r)
    /\ lastOp' = Got("fetchError", resp)
    /\ UNCHANGED <<session, interceptor, component, query, server>>

\* the query runs its function again after every failure, without end
fetchErrorRetries(r, resp) ==
    /\ Mounted /\ Arrives(r, resp)
    /\ resp.method = "GET" /\ ~IsSuccess(resp) /\ ~IsUnauthorized(resp)
    /\ lastOp' = Got("fetchError", resp)
    /\ UNCHANGED <<session, interceptor, component, query, net, server>>

\* the query function rejects with anything but a 401: the query is in error
fetchError(r, resp) ==
    /\ Mounted /\ Arrives(r, resp)
    /\ resp.method = "GET" /\ ~IsSuccess(resp) /\ ~IsUnauthorized(resp)
    /\ status' = "error"
    /\ net' = Rest(r)
    /\ lastOp' = Got("fetchError", resp)
    /\ UNCHANGED <<session, interceptor, component, chatHistory, server>>

\* the refetch an invalidation starts, and its effect on the query state
Refetch(r) ==
    /\ net' = InvalidateQueries(Rest(r))
    /\ status' = StatusOnFetch(Rest(r))
    /\ UNCHANGED chatHistory

\* sendMessageMutation.onSuccess
sendSuccess(r, resp) ==
    /\ Mounted /\ Arrives(r, resp)
    /\ resp.method = "POST" /\ resp.url = MessagesPath /\ IsSuccess(resp)
    /\ Refetch(r)
    /\ lastOp' = Got("sendSuccess", resp)
    /\ UNCHANGED <<session, interceptor, component, server>>

\* the success of a delete closes the edit session
deleteSuccessClosesEdit(r, resp) ==
    /\ Mounted /\ Arrives(r, resp)
    /\ resp.method = "DELETE" /\ IsSuccess(resp)
    /\ Refetch(r)
    /\ editMessageId' = NoEdit
    /\ lastOp' = Got("deleteSuccess", resp)
    /\ UNCHANGED <<session, interceptor, message, editedContent, server>>

\* deleteMessageMutation.onSuccess
deleteSuccess(r, resp) ==
    /\ Mounted /\ Arrives(r, resp)
    /\ resp.method = "DELETE" /\ IsSuccess(resp)
    /\ Refetch(r)
    /\ lastOp' = Got("deleteSuccess", resp)
    /\ UNCHANGED <<session, interceptor, component, server>>

\* the success of a save closes the edit session of the saved message only
editSuccessOfOpenEdit(r, resp) ==
    /\ Mounted /\ Arrives(r, resp)
    /\ resp.method = "PUT" /\ IsSuccess(resp)
    /\ Refetch(r)
    /\ editMessageId' = IF resp.url = MessagePath(editMessageId) THEN NoEdit ELSE editMessageId
    /\ lastOp' = [Got("editSuccess", resp) EXCEPT !.arg = resp.url]
    /\ UNCHANGED <<session, interceptor, message, editedContent, server>>

\* editMessageMutation.onSuccess (the step records the path of the PUT that
\* has succeeded)
editSuccess(r, resp) ==
    /\ Mounted /\ Arrives(r, resp)
    /\ resp.method = "PUT" /\ IsSuccess(resp)
    /\ Refetch(r)
    /\ editMessageId' = NoEdit
    /\ lastOp' = [Got("editSuccess", resp) EXCEPT !.arg = resp.url]
    /\ UNCHANGED <<session, interceptor, message, editedContent, server>>

\* the failure of a mutation invalidates the history, as a success does
mutationErrorRefetches(r, resp) ==
    /\ Mounted /\ Arrives(r, resp)
    /\ resp.method \in Mutations /\ ~IsSuccess(resp) /\ ~IsUnauthorized(resp)
    /\ Refetch(r)
    /\ lastOp' = Got("mutationError", resp)
    /\ UNCHANGED <<session, interceptor, component, server>>

\* a failed save closes the edit session
mutationErrorClosesEdit(r, resp) ==
    /\ Mounted /\ Arrives(r, resp)
    /\ resp.method \in Mutations /\ ~IsSuccess(resp) /\ ~IsUnauthorized(resp)
    /\ net' = Rest(r)
    /\ editMessageId' = IF resp.method = "PUT" THEN NoEdit ELSE editMessageId
    /\ lastOp' = Got("mutationError", resp)
    /\ UNCHANGED <<session, interceptor, message, editedContent, query, server>>

\* a mutation rejects with anything but a 401: no onError handler is set
mutationError(r, resp) ==
    /\ Mounted /\ Arrives(r, resp)
    /\ resp.method \in Mutations /\ ~IsSuccess(resp) /\ ~IsUnauthorized(resp)
    /\ net' = Rest(r)
    /\ lastOp' = Got("mutationError", resp)
    /\ UNCHANGED <<session, interceptor, component, query, server>>

(* ------------------------- the route guard, Login --------------------- *)

\* the guard lets every entry through
isAuthenticatedAlways == TRUE

\* ProtectedRoute: const isAuthenticated = !!localStorage.getItem('token')
isAuthenticated == token # NoToken

\* the browser loads "/": the route of Chat is behind ProtectedRoute, which
\* renders the Outlet (Chat mounts and its query starts the first fetch) or
\* <Navigate to="/login" replace />
ProtectedRoute ==
    /\ interceptor = Idle
    /\ Unload
    /\ IF isAuthenticated
       THEN /\ location' = ChatPath
            /\ net' = Aborted(net) (+) SetToBag({Request("GET", HistoryPath, NoBody)})
       ELSE /\ location' = LoginPath
            /\ net' = Aborted(net)
    /\ lastOp' = Op("ProtectedRoute")
    /\ UNCHANGED <<token, interceptor, server>>

\* Login is on screen
LoginPage == location = LoginPath /\ interceptor = Idle

\* handleLogin, up to the await: httpClient.post('/token', formData)
handleLogin ==
    /\ LoginPage
    /\ Dispatch(Request("POST", TokenPath, Some(FormData)))
    /\ lastOp' = Op("handleLogin")
    /\ UNCHANGED <<session, interceptor, component, query, server>>

\* the server accepts the credentials and issues an access token
serverToken(r, tok) ==
    /\ interceptor = Idle
    /\ r.phase \in {"sent", "aborted"}
    /\ r.url = TokenPath
    /\ net' = Answered(r, Some(tok))
    /\ lastOp' = Op("serverToken")
    /\ UNCHANGED <<session, interceptor, component, query, server>>

\* the login stores the token it was sent with, not the one it received
loginSuccessKeepsToken(r, resp) ==
    /\ Arrives(r, resp)
    /\ resp.url = TokenPath /\ IsSuccess(resp)
    /\ token' = IF token = NoToken THEN FirstToken ELSE token
    /\ location' = AfterLoginPath
    /\ net' = Rest(r)
    /\ lastOp' = Got("loginSuccess", resp)
    /\ UNCHANGED <<interceptor, component, query, server>>

\* handleLogin, after the await:
\* localStorage.setItem('token', response.data.access_token); navigate('/chat')
loginSuccess(r, resp) ==
    /\ Arrives(r, resp)
    /\ resp.url = TokenPath /\ IsSuccess(resp)
    /\ token' = resp.data[1]
    /\ location' = AfterLoginPath
    /\ net' = Rest(r)
    /\ lastOp' = Got("loginSuccess", resp)
    /\ UNCHANGED <<interceptor, component, query, server>>

\* handleLogin, catch: console.error('Login failed', error)
loginError(r, resp) ==
    /\ Arrives(r, resp)
    /\ resp.url = TokenPath /\ ~IsSuccess(resp) /\ ~IsUnauthorized(resp)
    /\ net' = Rest(r)
    /\ lastOp' = Got("loginError", resp)
    /\ UNCHANGED <<session, interceptor, component, query, server>>

(* --------------------------- the specification ------------------------ *)

\* the history the server holds when the page is opened
InitialHistory == <<UserMessage(1, <<"a">>), BotMessage(2, 1)>>

\* Chat has just been mounted behind the route guard: the query's first
\* fetch is on its way (the refetch of the mount effect joins it)
Init ==
    /\ token = FirstToken
    /\ location = ChatPath
    /\ message = <<>>
    /\ editMessageId = NoEdit
    /\ editedContent = <<>>
    /\ chatHistory = Undefined
    /\ status = "loading"
    /\ net = SetToBag({Request("GET", HistoryPath, NoBody)})
    /\ interceptor = Idle
    /\ serverHistory = InitialHistory
    /\ nextId = 3
    /\ lastOp = Op("mount")

Next ==
    \/ \E s \in Typed : setMessage(s)
    \/ (SendAccepts(message) => Room /\ IdsLeft) /\ handleSendMessage
    \/ \E chat \in Rendered : Room /\ handleDeleteMessage(chat)
    \/ \E chat \in Rendered : handleEditMessage(chat)
    \/ \E s \in Typed : setEditedContent(s)
    \/ \E chat \in Rendered : (SaveAccepts(editedContent) => Room) /\ handleSaveEdit(chat)
    \/ \E r \in Requests : \E resp \in Responses(r) : unauthorized(r, resp)
    \/ redirect
    \/ reject
    \/ \E r \in Requests : discard(r)
    \/ \E r \in Requests : \E resp \in Responses(r) : fetchSuccess(r, resp)
    \/ \E r \in Requests : \E resp \in Responses(r) : fetchError(r, resp)
    \/ \E r \in Requests : \E resp \in Responses(r) : sendSuccess(r, resp)
    \/ \E r \in Requests : \E resp \in Responses(r) : deleteSuccess(r, resp)
    \/ \E r \in Requests : \E resp \in Responses(r) : editSuccess(r, resp)
    \/ \E r \in Requests : \E resp \in Responses(r) : mutationError(r, resp)
    \/ \E r \in Requests : serverHandle(r)

Spec == Init /\ [][Next]_vars

\* the page after the history has loaded and the user has typed: any text
\* in the input field and, with the edit form of message 1 open, any draft
InitTyped ==
    /\ token = FirstToken
    /\ location = ChatPath
    /\ message \in Strings
    /\ \/ editMessageId = NoEdit /\ editedContent = <<>>
       \/ editMessageId = toString(1) /\ editedContent \in Strings
    /\ chatHistory = Some(InitialHistory)
    /\ status = "success"
    /\ net = EmptyBag
    /\ interceptor = Idle
    /\ serverHistory = InitialHistory
    /\ nextId = 3
    /\ lastOp = Op("setMessage")

\* the user submits what is typed, in the input field or in the edit form,
\* and the requests run their course: the texts are those drawn at the start
NextTyped ==
    \/ (SendAccepts(message) => Room /\ IdsLeft) /\ handleSendMessage
    \/ \E chat \in Rendered : (SaveAccepts(editedContent) => Room) /\ handleSaveEdit(chat)
    \/ \E r \in Requests : \E resp \in Responses(r) : unauthorized(r, resp)
    \/ redirect
    \/ reject
    \/ \E r \in Requests : \E resp \in Responses(r) : fetchSuccess(r, resp)
    \/ \E r \in Requests : \E resp \in Responses(r) : sendSuccess(r, resp)
    \/ \E r \in Requests : \E resp \in Responses(r) : editSuccess(r, resp)
    \/ \E r \in Requests : \E resp \in Responses(r) : mutationError(r, resp)
    \/ \E r \in Requests : serverHandle(r)

SpecTyped == InitTyped /\ [][NextTyped]_vars

\* the browser at the login page, nobody logged in
InitSession ==
    /\ token = NoToken
    /\ location = LoginPath
    /\ message = <<>>
    /\ editMessageId = NoEdit
    /\ editedContent = <<>>
    /\ chatHistory = Undefined
    /\ status = "loading"
    /\ net = EmptyBag
    /\ interceptor = Idle
    /\ serverHistory = InitialHistory
    /\ nextId = 3
    /\ lastOp = Op("load")

\* the session from login to login: the user logs in, enters the
\* conversation view, edits and deletes there, and any request may come
\* back 401
NextSession ==
    \/ Room /\ handleLogin
    \/ \E r \in Requests : \E tok \in Tokens : serverToken(r, tok)
    \/ \E r \in Requests : \E resp \in Responses(r) : loginSuccess(r, resp)
    \/ \E r \in Requests : \E resp \in Responses(r) : loginError(r, resp)
    \/ ProtectedRoute
    \/ \E chat \in Rendered : Room /\ handleDeleteMessage(chat)
    \/ \E chat \in Rendered : handleEditMessage(chat)
    \/ \E chat \in Rendered : (SaveAccepts(editedContent) => Room) /\ handleSaveEdit(chat)
    \/ \E r \in Requests : \E resp \in Responses(r) : unauthorized(r, resp)
    \/ redirect
    \/ reject
    \/ \E r \in Requests : discard(r)
    \/ \E r \in Requests : \E resp \in Responses(r) : fetchSuccess(r, resp)
    \/ \E r \in Requests : \E resp \in Responses(r) : fetchError(r, resp)
    \/ \E r \in Requests : \E resp \in Responses(r) : deleteSuccess(r, resp)
    \/ \E r \in Requests : \E resp \in Responses(r) : editSuccess(r, resp)
    \/ \E r \in Requests : \E resp \in Responses(r) : mutationError(r, resp)
    \/ \E r \in Requests : serverHandle(r)

SpecSession == InitSession /\ [][NextSession]_vars

\* the lists of button labels a bot message comes with
ButtonLists == {<<>>, <<"Option 1">>, <<"Option 2", "Option 1">>}

\* the messages the server can hold under an identifier: one of the user,
\* or one of the bot with one of the lists of buttons
MessagesOf(id) ==
    {UserMessage(id, <<"a">>)}
        \cup {[BotMessage(id, 0) EXCEPT !.buttons = b] : b \in ButtonLists}

\* the histories of up to MaxLoaded messages, identifiers in order
Histories ==
    UNION {{h \in [1..n -> UNION {MessagesOf(id) : id \in 1..n}] :
               \A i \in 1..n : h[i].id = i} : n \in 0..MaxLoaded}

\* the page after any of these histories has loaded
InitRender ==
    /\ token = FirstToken
    /\ location = ChatPath
    /\ message = <<>>
    /\ editMessageId = NoEdit
    /\ editedContent = <<>>
    /\ serverHistory \in Histories
    /\ chatHistory = Some(serverHistory)
    /\ status = "success"
    /\ net = EmptyBag
    /\ interceptor = Idle
    /\ nextId = Len(serverHistory) + 1
    /\ lastOp = Op("fetchSuccess")

\* the user edits the messages on screen and saves the drafts
NextRender ==
    \/ \E chat \in Rendered : handleEditMessage(chat)
    \/ \E s \in Typed : setEditedContent(s)
    \/ \E chat \in Rendered : (SaveAccepts(editedContent) => Room) /\ handleSaveEdit(chat)
    \/ \E r \in Requests : \E resp \in Responses(r) : unauthorized(r, resp)
    \/ redirect
    \/ reject
    \/ \E r \in Requests : \E resp \in Responses(r) : fetchSuccess(r, resp)
    \/ \E r \in Requests : \E resp \in Responses(r) : fetchError(r, resp)
    \/ \E r \in Requests : \E resp \in Responses(r) : editSuccess(r, resp)
    \/ \E r \in Requests : \E resp \in Responses(r) : mutationError(r, resp)
    \/ \E r \in Requests : serverHandle(r)

SpecRender == InitRender /\ [][NextRender]_vars

\* the drafts the user types into the edit form (SpecEdit): a blank one
\* and one that differs from every content the server starts with
EditTexts == {<<" ">>, <<" ", "a">>}

\* a conversation of two exchanges, the messages of the user differing
TwoExchanges ==
    <<UserMessage(1, <<"a">>), BotMessage(2, 1),
      UserMessage(3, <<"a", "a">>), BotMessage(4, 3)>>

\* the page after the two exchanges have loaded
InitEdit ==
    /\ token = FirstToken
    /\ location = ChatPath
    /\ message = <<>>
    /\ editMessageId = NoEdit
    /\ editedContent = <<>>
    /\ serverHistory = TwoExchanges
    /\ chatHistory = Some(serverHistory)
    /\ status = "success"
    /\ net = EmptyBag
    /\ interceptor = Idle
    /\ nextId = Len(serverHistory) + 1
    /\ lastOp = Op("fetchSuccess")

\* the user edits and saves the two messages of the user, in any order and
\* without waiting for the responses
NextEdit ==
    \/ \E chat \in Rendered : handleEditMessage(chat)
    \/ \E s \in EditTexts : setEditedContent(s)
    \/ \E chat \in Rendered : (SaveAccepts(editedContent) => Room) /\ handleSaveEdit(chat)
    \/ \E r \in Requests : \E resp \in Responses(r) : unauthorized(r, resp)
    \/ redirect
    \/ reject
    \/ \E r \in Requests : \E resp \in Responses(r) : fetchSuccess(r, resp)
    \/ \E r \in Requests : \E resp \in Responses(r) : fetchError(r, resp)
    \/ \E r \in Requests : \E resp \in Responses(r) : editSuccess(r, resp)
    \/ \E r \in Requests : \E resp \in Responses(r) : mutationError(r, resp)
    \/ \E r \in Requests : serverHandle(r)

SpecEdit == InitEdit /\ [][NextEdit]_vars

\* one load of the page: the first fetch runs its course, and with the
\* history on screen the user edits and deletes
NextLoad ==
    \/ \E chat \in Rendered : Room /\ handleDeleteMessage(chat)
    \/ \E chat \in Rendered : handleEditMessage(chat)
    \/ \E chat \in Rendered : (SaveAccepts(editedContent) => Room) /\ handleSaveEdit(chat)
    \/ \E r \in Requests : \E resp \in Responses(r) : unauthorized(r, resp)
    \/ redirect
    \/ reject
    \/ \E r \in Requests : discard(r)
    \/ \E r \in Requests : \E resp \in Responses(r) : fetchSuccess(r, resp)
    \/ \E r \in Requests : \E resp \in Responses(r) : fetchError(r, resp)
    \/ \E r \in Requests : \E resp \in Responses(r) : deleteSuccess(r, resp)
    \/ \E r \in Requests : \E resp \in Responses(r) : editSuccess(r, resp)
    \/ \E r \in Requests : \E resp \in Responses(r) : mutationError(r, resp)
    \/ \E r \in Requests : serverHandle(r)

\* a request that is out makes its way: the server handles it, or the
\* client receives its response or its failure
Responds ==
    \E r \in Requests :
       \/ serverHandle(r)
       \/ \E resp \in Responses(r) :
             \/ unauthorized(r, resp)
             \/ fetchSuccess(r, resp) \/ fetchError(r, resp)
             \/ deleteSuccess(r, resp) \/ editSuccess(r, resp)
             \/ mutationError(r, resp)

\* every request in flight receives a response in the end, and the
\* interceptor, once it runs, runs to its last statement
Fairness == WF_vars(Responds) /\ WF_vars(redirect) /\ WF_vars(reject)

SpecLoad == Init /\ [][NextLoad]_vars /\ Fairness

\* the user fires send, save and delete without waiting for the one before:
\* the texts are those drawn at the start
NextConcurrent ==
    \/ (SendAccepts(message) => RoomConcurrent /\ IdsLeft) /\ handleSendMessage
    \/ \E chat \in Rendered :
          (SaveAccepts(editedContent) => RoomConcurrent) /\ handleSaveEdit(chat)
    \/ \E chat \in Rendered : RoomConcurrent /\ handleDeleteMessage(chat)
    \/ \E r \in Requests : \E resp \in Responses(r) : unauthorized(r, resp)
    \/ redirect
    \/ reject
    \/ \E r \in Requests : discard(r)
    \/ \E r \in Requests : \E resp \in Responses(r) : fetchSuccess(r, resp)
    \/ \E r \in Requests : \E resp \in Responses(r) : fetchError(r, resp)
    \/ \E r \in Requests : \E resp \in Responses(r) : sendSuccess(r, resp)
    \/ \E r \in Requests : \E resp \in Responses(r) : deleteSuccess(r, resp)
    \/ \E r \in Requests : \E resp \in Responses(r) : editSuccess(r, resp)
    \/ \E r \in Requests : \E resp \in Responses(r) : mutationError(r, resp)
    \/ \E r \in Requests : serverHandle(r)

SpecConcurrent == InitTyped /\ [][NextConcurrent]_vars

TypeOK ==
    /\ token \in {NoToken} \cup Tokens
    /\ location \in {ChatPath, LoginPath, AfterLoginPath}
    /\ message \in Strings \cup Typed
    /\ editedContent \in Strings \cup Typed \cup EditTexts
    /\ status \in {"loading", "success", "error"}

(* -------------------------------- claims ------------------------------ *)

Blank(s) == Trim(s) = <<>>

\* the step is the callback of a response to a request of this method
Received(op, method) == op.method = method /\ op.status # -1

Ok(op) == op.status >= 200 /\ op.status < 300

\* the step adds exactly one request, r, to those in flight
Adds(r) == r.phase = "sent" /\ net' = net (+) SetToBag({r})

\* C1: whenever the client receives a 401, for a history fetch, a send, an
\* edit or a delete, and whatever its state, the stored token is removed and
\* the browser is at the login path.
UnauthorizedInvalidation ==
    lastOp.status = 401 => token = NoToken /\ location = LoginPath

\* a save's PUT has come back 401: the edit session was open when it left
UnauthorizedAfterSave ==
    /\ lastOp.status = 401 /\ lastOp.method = "PUT"
    /\ token = NoToken /\ location = LoginPath

\* C2 (as claimed): once the requests have all completed after a mutation,
\* the replica on display equals the history the server holds, whatever
\* the interleaving of the mutations and the history fetches was.
RefetchWins ==
    (Mounted /\ interceptor = Idle /\ status = "success" /\ Requests = {})
        => chatHistory = Some(serverHistory)

\* C3: at most one message is in the edit form at any time, and beginning
\* an edit on a message, also while another one is being edited, makes it
\* the message being edited with its own content as the draft.
SingleActiveEdit ==
    /\ [](Cardinality(Forms) <= 1)
    /\ [][lastOp'.op = "handleEditMessage" =>
            \E chat \in Rendered :
                /\ chat.is_from_user
                /\ lastOp'.arg = toString(chat.id)
                /\ editMessageId' = lastOp'.arg
                /\ editedContent' = chat.content]_vars

\* the edit of message 3 has just begun while the saved draft of message 1
\* is still on its way: the session moved from 1 to 3
EditSwitched ==
    /\ lastOp.op = "handleEditMessage" /\ lastOp.arg = "3"
    /\ editMessageId = "3"
    /\ \E r \in Requests : r.method = "PUT" /\ r.url = "/messages/1" /\ r.phase = "sent"
    /\ \E chat \in Rendered : chat.id = 3 /\ editedContent = chat.content

\* C4: a send with an empty or whitespace-only input and a save with an
\* empty or whitespace-only draft dispatch nothing: no POST, no PUT.
EmptyContentGuard ==
    [][(\/ lastOp'.op = "handleSendMessage" /\ Blank(message)
        \/ lastOp'.op = "handleSaveEdit" /\ Blank(editedContent))
          => net' = net]_vars

\* a save has just been tried with a draft of spaces, and nothing is out
BlankSaveDone ==
    /\ lastOp.op = "handleSaveEdit"
    /\ editedContent # <<>> /\ Blank(editedContent)
    /\ net = EmptyBag

DeleteResolved(messageId) ==
    /\ \E i \in 1..(nextId - 1) : toString(i) = messageId
    /\ \A i \in DOMAIN serverHistory : toString(serverHistory[i].id) # messageId
    /\ \A r \in Requests : ~(r.method = "DELETE" /\ r.url = MessagePath(messageId))

\* C6 (as claimed): once the DELETE of a message has succeeded, the history
\* the client displays next does not contain the message.
DeletedAbsentFromNextHistory ==
    (Mounted /\ lastOp.op = "fetchSuccess")
        => \A chat \in Rendered : ~DeleteResolved(toString(chat.id))

BlankSendChangesNothing ==
    [][(lastOp'.op = "handleSendMessage" /\ Blank(message)) =>
          UNCHANGED <<message, chatHistory, status, editMessageId, editedContent,
                      token, location, net>>]_vars

\* a send has just been tried with an input of spaces, which is still there
BlankSendDone ==
    /\ lastOp.op = "handleSendMessage"
    /\ message # <<>> /\ Blank(message)

\* C9: a send with a non-blank input clears the input field in the step
\* that dispatches the POST, and no response to a POST, success or failure,
\* puts anything back into the field.
InputClearedOnSubmit ==
    /\ [][(lastOp'.op = "handleSendMessage" /\ ~Blank(message)) =>
            /\ message' = <<>>
            /\ \E r \in BagToSet(net') : r.method = "POST" /\ Adds(r)]_vars
    /\ [][Received(lastOp', "POST") =>
            (message' = message \/ (lastOp'.status = 401 /\ message' = <<>>))]_vars

\* a POST has failed and the input field is empty
SendFailedInputEmpty ==
    /\ lastOp.op = "mutationError" /\ lastOp.method = "POST"
    /\ message = <<>>

\* C10 (as claimed): whenever a PUT fails, the message being edited and
\* the draft are what they were.
EditFailureKeepsSession ==
    [][(Received(lastOp', "PUT") /\ ~Ok(lastOp')) =>
          UNCHANGED <<editMessageId, editedContent>>]_vars

\* C10 (amended): whenever a PUT fails with anything but a 401, the message
\* being edited and the draft are what they were; an edit session ends only
\* by the success of a PUT, by a 401, or by the begin of another edit.
EditFailureKeepsSessionUnless401 ==
    /\ [][(Received(lastOp', "PUT") /\ ~Ok(lastOp') /\ lastOp'.status # 401) =>
            UNCHANGED <<editMessageId, editedContent>>]_vars
    /\ [][(editMessageId # NoEdit /\ editMessageId' = NoEdit) =>
            \/ Received(lastOp', "PUT") /\ Ok(lastOp')
            \/ lastOp'.status = 401]_vars

\* a PUT has failed and its message is still in the edit form
SaveFailedStillEditing ==
    /\ lastOp.op = "mutationError" /\ lastOp.method = "PUT"
    /\ editMessageId # NoEdit
    /\ Forms # {}

\* C11: the route guard decides on the presence of the token alone: an
\* entry of the conversation view with a token mounts Chat, whatever the
\* server would say of the token, and an entry without one ends at the
\* login path; once mounted, the view is left only by the redirection of a
\* 401.
RouteGuardByTokenPresence ==
    /\ [][lastOp'.op = "ProtectedRoute" =>
            /\ token' = token
            /\ token # NoToken => location' = ChatPath
            /\ token = NoToken => location' = LoginPath]_vars
    /\ [][(location = ChatPath /\ location' # ChatPath) =>
            lastOp'.op = "redirect" /\ interceptor[2].status = 401]_vars

\* the view was entered with a token the server then refused: the first
\* fetch of the history has come back 401
EnteredThenUnauthorized ==
    /\ lastOp.op = "reject" /\ lastOp.method = "GET" /\ lastOp.status = 401
    /\ location = LoginPath /\ token = NoToken

\* the requests the step sends
Sent == {r \in BagToSet(net') : r.phase = "sent" /\ CopiesIn(r, net') > CopiesIn(r, net)}

\* C12: every request leaves with the bearer credential of the token that
\* is stored when it is dispatched, and with no Authorization credential
\* when no token is stored.
BearerOfStoredToken ==
    [][\A r \in Sent :
          /\ token \in Tokens => r.auth = "Bearer " \o token
          /\ token = NoToken => r.auth = NoAuth]_vars

\* a delete has just left with the token of the login before it, and the
\* server had issued the second of its tokens
DeleteCarriesSecondToken ==
    /\ lastOp.op = "handleDeleteMessage"
    /\ token = "jwt2"
    /\ \E r \in Requests :
          r.method = "DELETE" /\ r.phase = "sent" /\ r.auth = "Bearer jwt2"

\* the callbacks that run when a call is fulfilled
SuccessHandlers == {"fetchSuccess", "sendSuccess", "deleteSuccess", "editSuccess", "loginSuccess"}

EachSuccessRefetches ==
    /\ [][lastOp'.op \in {"handleSendMessage", "handleSaveEdit", "handleDeleteMessage"} =>
            \/ Sent = {} /\ net' = net
            \/ \E r \in Sent : r.method \in Mutations /\ Adds(r)]_vars
    /\ [][lastOp'.op \in {"sendSuccess", "deleteSuccess", "editSuccess"} =>
            \E g \in Sent : g.method = "GET" /\ g.url = "/messages/history"]_vars
    /\ [][chatHistory' # chatHistory =>
            lastOp'.op = "fetchSuccess" \/ lastOp'.status = 401]_vars

\* C16: the replica is absent or the data of one completed GET
\* /messages/history: it changes only when such a response is delivered,
\* to exactly that data, or when the page is unloaded, to nothing; the
\* handlers of send, edit and delete and the callbacks of their requests
\* leave it as it is.
ReplicaOnlyFromGet ==
    /\ [][chatHistory' # chatHistory =>
            \/ /\ lastOp'.op = "fetchSuccess"
               /\ \E r \in Requests :
                     /\ r.method = "GET" /\ r.url = "/messages/history"
                     /\ r.phase = "replied" /\ r.status = 200
                     /\ chatHistory' = r.data
            \/ chatHistory' = Undefined /\ ~Mounted']_vars
    /\ [][(\/ lastOp'.op \in {"handleSendMessage", "handleSaveEdit", "handleEditMessage",
                              "handleDeleteMessage", "mutationError"}
           \/ lastOp'.op \in {"sendSuccess", "editSuccess", "deleteSuccess"})
            => chatHistory' = chatHistory]_vars

\* the DELETE of message 1 has succeeded, the server no longer has the
\* message, and the replica still shows it: nothing was patched locally
DeletedStillInReplica ==
    /\ lastOp.op = "deleteSuccess"
    /\ \E chat \in Rendered : chat.id = 1
    /\ \A i \in DOMAIN serverHistory : serverHistory[i].id # 1

\* C17: the stored token changes in two ways only: a 200 response to
\* POST /token stores the access token of that response, and the response
\* interceptor removes the token on a 401; no other step sets or removes it.
TokenOnlyByLoginAnd401 ==
    [][token' # token =>
          \/ /\ lastOp'.op = "loginSuccess"
             /\ Received(lastOp', "POST") /\ Ok(lastOp')
             /\ \E r \in Requests :
                   /\ r.url = "/token" /\ r.phase = "replied"
                   /\ r.data = <<token'>> /\ token' \in Tokens
          \/ /\ token' = NoToken
             /\ lastOp'.op = "unauthorized"
             /\ interceptor = Idle /\ interceptor'[2].status = 401]_vars

\* a second login has stored a token: the one before it was removed by a
\* 401 after a message had been deleted under it
LoggedInAgain ==
    /\ lastOp.op = "loginSuccess"
    /\ token \in Tokens /\ location = AfterLoginPath
    /\ serverHistory # InitialHistory

\* C18 (as claimed): the content a POST /messages or a PUT /messages/{id}
\* leaves with is trimmed: it has no leading and no trailing whitespace.
SentContentTrimmed ==
    [][\A r \in Sent :
          (r.method \in {"POST", "PUT"} /\ r.url # "/token") =>
              /\ r.body # Undefined
              /\ r.body[1] # <<>>
              /\ ~IsSpace(Head(r.body[1]))
              /\ ~IsSpace(r.body[1][Len(r.body[1])])]_vars

\* the labels on screen for a message are its buttons, in order, if it is
\* of the bot and has buttons, and none otherwise
ButtonsOfBotShown(shown, chat) ==
    /\ (~chat.is_from_user /\ chat.buttons # <<>>) => shown.buttons = chat.buttons
    /\ ~(~chat.is_from_user /\ chat.buttons # <<>>) => shown.buttons = <<>>

\* every message of the history is on screen, in the order of the history
AllShownInOrder ==
    /\ Len(ChatBody) = Len(chatHistory[1])
    /\ \A i \in DOMAIN ChatBody : ChatBody[i].id = chatHistory[1][i].id

\* C19 (as claimed): with the history on display, every message of it is
\* on screen in the server's order, with its button labels in order exactly
\* if it is a bot message with buttons, and with Edit and Delete exactly if
\* it is a user message.
ButtonsAndActionsByAuthor ==
    Interactive =>
        /\ AllShownInOrder
        /\ \A i \in DOMAIN ChatBody :
              /\ ButtonsOfBotShown(ChatBody[i], chatHistory[1][i])
              /\ {"Edit", "Delete"} \subseteq ChatBody[i].actions
                    <=> chatHistory[1][i].is_from_user

\* C19 (amended): the same, with Edit and Delete exactly on the user
\* messages that are not being edited; the message being edited is on
\* screen as the edit form: the draft and Save.
ButtonsAndActionsOutsideEditForm ==
    Interactive =>
        /\ AllShownInOrder
        /\ \A i \in DOMAIN ChatBody :
              /\ ButtonsOfBotShown(ChatBody[i], chatHistory[1][i])
              /\ {"Edit", "Delete"} \subseteq ChatBody[i].actions
                    <=> (chatHistory[1][i].is_from_user
                           /\ editMessageId # toString(chatHistory[1][i].id))
              /\ editMessageId = toString(chatHistory[1][i].id) =>
                    /\ chatHistory[1][i].is_from_user
                    /\ ChatBody[i].text = editedContent
                    /\ ChatBody[i].actions = {"Save"}
              /\ editMessageId # toString(chatHistory[1][i].id) =>
                    ChatBody[i].text = chatHistory[1][i].content

\* two user messages are on display, the first in the edit form with a
\* changed draft, the second with Edit and Delete
OneEditedOneNot ==
    /\ Interactive /\ Len(ChatBody) = 2
    /\ editMessageId = "1" /\ editedContent = <<" ">>
    /\ ChatBody[1].actions = {"Save"} /\ ChatBody[1].text = <<" ">>
    /\ ChatBody[2].actions = {"Edit", "Delete"}

\* C20: a fetch of the history is dispatched only by the step that
\* delivers the 2xx response of a POST, PUT or DELETE, in place of that
\* response; the steps that dispatch a mutation dispatch nothing else, and
\* the failure of a mutation dispatches nothing.
RefetchOnlyAfterResponse ==
    /\ [][\A g \in Sent : g.method = "GET" =>
            /\ lastOp'.op \in {"sendSuccess", "editSuccess", "deleteSuccess"}
            /\ lastOp'.method \in Mutations /\ Ok(lastOp')
            /\ \E r \in Requests :
                  /\ r.method = lastOp'.method /\ r.phase = "replied"
                  /\ net' = (net (-) SetToBag({r})) (+) SetToBag({g})]_vars
    /\ [][lastOp'.op \in {"handleSendMessage", "handleSaveEdit", "handleDeleteMessage"} =>
            \A r \in Sent : r.method \in Mutations]_vars
    /\ [][(lastOp'.method \in Mutations /\ lastOp'.status # -1 /\ ~Ok(lastOp')) =>
            Sent = {}]_vars

\* the PUT of a save has succeeded and the refetch it caused has left; no
\* PUT is in flight any more
RefetchLeftAfterSave ==
    /\ lastOp.op = "editSuccess"
    /\ \E g \in Requests : g.method = "GET" /\ g.phase = "sent"
    /\ \A r \in Requests : r.method # "PUT"

\* C21: a click on Edit of a message on display leaves that message as the
\* one being edited, whether none or any was being edited before, with the
\* draft equal to the content the replica holds for it at the click.
BeginEditTakesReplicaContent ==
    [][lastOp'.op = "handleEditMessage" =>
          /\ chatHistory # Undefined
          /\ editMessageId' # NoEdit /\ editMessageId' = lastOp'.arg
          /\ \E i \in DOMAIN chatHistory[1] :
                /\ toString(chatHistory[1][i].id) = editMessageId'
                /\ editedContent' = chatHistory[1][i].content]_vars

\* message 1 was saved with another content, which the server holds, and
\* its edit has begun again before the refetch came back: the draft is the
\* content of the replica, not the server's
DraftFromReplicaNotServer ==
    /\ lastOp.op = "handleEditMessage" /\ editMessageId = "1"
    /\ editedContent = <<"a">>
    /\ \E i \in DOMAIN serverHistory :
          serverHistory[i].id = 1 /\ serverHistory[i].content = <<" ", "a">>

\* the steps of the user at the page
Handlers ==
    {"setMessage", "handleSendMessage", "handleDeleteMessage", "handleEditMessage",
     "setEditedContent", "handleSaveEdit"}

\* C22: nothing cancels a request in flight: no step of the user takes a
\* request back, the begin of another edit replaces the draft and leaves
\* the requests as they are, and a PUT that is out ends only by a failure
\* or by the server storing the content it was dispatched with, whatever the
\* edit form holds by then.
NoCancellationOfSave ==
    /\ [][lastOp'.op \in Handlers =>
            \A r \in Requests : CopiesIn(r, net') >= CopiesIn(r, net)]_vars
    /\ [][lastOp'.op = "handleEditMessage" => net' = net]_vars
    /\ [][\A r \in Requests :
            (r.method = "PUT" /\ r.phase = "sent" /\ CopiesIn(r, net') < CopiesIn(r, net)) =>
               \/ /\ lastOp'.op = "serverHandle"
                  /\ \E i \in DOMAIN serverHistory' :
                        /\ r.url = "/messages/" \o toString(serverHistory'[i].id)
                        /\ <<serverHistory'[i].content>> = r.body
                  /\ CopiesIn(Response(r, 200, Undefined), net')
                        = CopiesIn(Response(r, 200, Undefined), net) + 1
               \/ lastOp'.op \in {"mutationError", "unauthorized", "reject"}]_vars

\* the save of message 1 was dispatched with a new content, the edit of
\* message 3 began, and the server has now stored the new content of
\* message 1: its response is on the way to the page, which edits message 3
SupersededSaveCompleted ==
    /\ lastOp.op = "serverHandle"
    /\ editMessageId = "3" /\ editedContent = <<"a", "a">>
    /\ \E r \in Requests :
          r.method = "PUT" /\ r.url = "/messages/1" /\ r.phase = "replied"
    /\ \E i \in DOMAIN serverHistory :
          serverHistory[i].id = 1 /\ serverHistory[i].content = <<" ", "a">>

\* C23: a send, an edit or a delete that fails with anything but a 401,
\* with another status or with no response at all, fails silently: the
\* request is gone and none is sent for it, neither a retry nor a refetch,
\* and the replica, the view, the input, the edit session, the token and
\* the path are what they were.
MutationFailureIsSilent ==
    [][(lastOp'.method \in Mutations /\ lastOp'.status # -1
          /\ ~Ok(lastOp') /\ lastOp'.status # 401) =>
          /\ lastOp'.op = "mutationError"
          /\ \A r \in Requests \cup BagToSet(net') : CopiesIn(r, net') <= CopiesIn(r, net)
          /\ BagCardinality(net') = BagCardinality(net) - 1
          /\ View' = View
          /\ UNCHANGED <<chatHistory, status, message, editMessageId, editedContent>>
          /\ UNCHANGED <<token, location, serverHistory>>]_vars

\* a delete got no response while the edit form of a message was open: the
\* history is still shown, the form is still open and nothing is in flight
DeleteFailedUnnoticed ==
    /\ lastOp.op = "mutationError" /\ lastOp.method = "DELETE" /\ lastOp.status = 0
    /\ View = "History" /\ editMessageId # NoEdit /\ token # NoToken
    /\ net = EmptyBag

\* C26: the success of a PUT closes the edit session whatever it is open
\* on: after the step no message is being edited and the draft is what it
\* was, also when the PUT was the save of another message than the one in
\* the edit form.
EditSuccessClosesAnySession ==
    /\ [][lastOp'.op = "editSuccess" =>
            /\ Received(lastOp', "PUT") /\ Ok(lastOp')
            /\ editMessageId' = NoEdit
            /\ editedContent' = editedContent]_vars
    /\ [][\A r \in Requests :
            (/\ r.method = "PUT" /\ r.phase = "replied"
             /\ CopiesIn(r, net') < CopiesIn(r, net)
             /\ editMessageId # NoEdit /\ r.url # MessagePath(editMessageId)) =>
               editMessageId' = NoEdit]_vars

\* the save of message 1 has succeeded while the edit form held the draft
\* taken from message 3 (no other message has this content, and it is not
\* among the texts typed): the edit of message 3 is closed, its draft is left
SaveOfOneClosedEditOfOther ==
    /\ lastOp.op = "editSuccess" /\ lastOp.arg = MessagePath("1")
    /\ editMessageId = NoEdit /\ editedContent = <<"a", "a">>
    /\ \E i \in DOMAIN serverHistory :
          serverHistory[i].id = 3 /\ serverHistory[i].content = <<"a", "a">>

\* the replica holds no message with the identifier in the edit session
EditedAbsent ==
    /\ editMessageId # NoEdit /\ chatHistory # Undefined
    /\ \A i \in DOMAIN chatHistory[1] : toString(chatHistory[1][i].id) # editMessageId

\* C27: the delete of a message, its success and the arrival of a history
\* leave the edit session alone: the message being edited and the draft are
\* what they were, also when the message is the one deleted or is no longer
\* in the history that arrives.
DeleteLeavesEditSession ==
    [][lastOp'.op \in {"handleDeleteMessage", "deleteSuccess", "fetchSuccess"} =>
          UNCHANGED <<editMessageId, editedContent>>]_vars

\* message 1 was deleted and then taken into the edit form before the
\* delete had succeeded: the history that has arrived is without it, and
\* the edit session still holds its identifier and its draft
EditingDeletedMessage ==
    /\ lastOp.op = "fetchSuccess"
    /\ editMessageId = "1" /\ editedContent = <<"a">>
    /\ EditedAbsent
    /\ \A i \in DOMAIN serverHistory : serverHistory[i].id # 1

\* C25 (as claimed): whenever the conversation view is displayed a token
\* is stored; the view is entered only through the guard, with a token; and
\* the step that removes the token leaves the view for the login path.
ViewOnlyWithToken ==
    /\ [](Mounted => token # NoToken)
    /\ [][(~Mounted /\ Mounted') =>
            lastOp'.op = "ProtectedRoute" /\ token' # NoToken]_vars
    /\ [][(token # NoToken /\ token' = NoToken) => location' = LoginPath]_vars

\* C25 (amended): whenever the conversation view is displayed and no 401
\* is being handled a token is stored; the view is entered only through the
\* guard, with a token; only a 401 removes the token, and the step after
\* the removal, with no other step in between, leaves the view for the
\* login path: the view is without a token between these two steps only.
ViewOnlyWithTokenOutsideInterceptor ==
    /\ []((Mounted /\ interceptor = Idle) => token # NoToken)
    /\ []((Mounted /\ token = NoToken) => interceptor[1] = "removeItem")
    /\ [][(~Mounted /\ Mounted') =>
            lastOp'.op = "ProtectedRoute" /\ token' # NoToken]_vars
    /\ [][(token # NoToken /\ token' = NoToken) =>
            /\ lastOp'.op = "unauthorized"
            /\ interceptor'[1] = "removeItem" /\ interceptor'[2].status = 401]_vars
    /\ [][(interceptor # Idle /\ interceptor[1] = "removeItem") =>
            /\ lastOp'.op = "redirect"
            /\ location' = LoginPath /\ token' = NoToken]_vars

\* the history was on screen when a refetch came back 401: the token is
\* removed and the browser has just been sent to the login path
ViewLeftOnUnauthorized ==
    /\ lastOp.op = "redirect"
    /\ interceptor # Idle /\ interceptor[2].method = "GET"
    /\ chatHistory # Undefined
    /\ token = NoToken /\ location = LoginPath

\* C28 (as claimed): the success of a login stores the access token of the
\* response and takes the browser to a path at which Chat is rendered behind
\* the route guard; a login that fails stores no token and does not take
\* the browser to the conversation.
LoginEntersConversation ==
    /\ [][lastOp'.op = "loginSuccess" =>
            /\ \E r \in Requests :
                  r.url = TokenPath /\ r.phase = "replied" /\ r.data = <<token'>>
            /\ token' \in Tokens
            /\ Mounted']_vars
    /\ [][(lastOp'.op = "loginError"
             \/ (lastOp'.op = "reject" /\ location = LoginPath /\ lastOp'.method = "POST")) =>
            /\ token' = token
            /\ ~Mounted']_vars

\* the history or the error text is on screen
Settled == Mounted /\ View \in {"History", "Error"}

\* C24 (as claimed): Loading ends only by a response to the fetch of the
\* history, never by the passing of time, and, every request receiving a
\* response in the end, Loading leads to History or Error.
LoadingLeadsToHistoryOrError ==
    /\ [][(Mounted /\ View = "Loading" /\ ~(Mounted' /\ View' = "Loading")) =>
            \/ Received(lastOp', "GET")
            \/ lastOp'.op = "redirect" /\ interceptor[2].method = "GET"]_vars
    /\ (Mounted /\ View = "Loading") ~> Settled

\* C24 (amended): Loading ends only by a response to the fetch of the
\* history, never by the passing of time, and, every request receiving a
\* response in the end, Loading leads to History, to Error or, by a 401, to
\* the login path.
LoadingLeadsToHistoryErrorOrLogin ==
    /\ [][(Mounted /\ View = "Loading" /\ ~(Mounted' /\ View' = "Loading")) =>
            \/ Received(lastOp', "GET") /\ lastOp'.status # 401 /\ Settled'
            \/ /\ lastOp'.op = "redirect"
               /\ interceptor[2].method = "GET" /\ interceptor[2].status = 401
               /\ location' = LoginPath]_vars
    /\ [](lastOp.op = "mount" => Mounted /\ View = "Loading")
    /\ (Mounted /\ View = "Loading") ~> (Settled \/ location = LoginPath)

\* the first fetch got no response from the server and has failed: the
\* error text is on screen, and there is no replica
FirstFetchFailed ==
    /\ lastOp.op = "fetchError" /\ lastOp.status = 0
    /\ Mounted /\ View = "Error"
    /\ chatHistory = Undefined /\ net = EmptyBag

====
